---- MODULE Spec2Model ----
(***************************************************************************)
(* Model of the EZCAD bridge (src/ezcad_bridge.py): the template session,  *)
(* the classification of the bridge executable's output, and the batch     *)
(* loop of process_data.                                                   *)
(*                                                                         *)
(* Text is a sequence of one-character strings, so that lower-casing,      *)
(* substring search, line splitting and trimming are computed as the code  *)
(* computes them.  The bridge executable is an opaque process: each         *)
(* invocation draws its reply from EngineReplies.                          *)
(*                                                                         *)
(* process_data runs one bridge invocation per step.  Its argument         *)
(* data_items is given by its length, and each row is drawn when the loop  *)
(* reaches it: the rows are immutable and the loop reads each one once.    *)
(* A row may be no dict, and a value may be an object whose __str__        *)
(* raises: these are the inputs that take the loop into its except clause. *)
(***************************************************************************)
EXTENDS Integers, Sequences, FiniteSets

\* ---------------------------------------------------------------- bounds
MaxRows == 2
MaxFields == 2

\* ------------------------------------------------------------------ text
\* Python's None; distinct from every text, whose elements are single characters.
None == <<"None">>

UpperChars == <<"A","B","C","D","E","F","G","H","I","J","K","L","M","N","O","P","Q","R","S","T","U","V","W","X","Y","Z">>
LowerChars == <<"a","b","c","d","e","f","g","h","i","j","k","l","m","n","o","p","q","r","s","t","u","v","w","x","y","z">>

\* the lower-case letter of each upper-case letter
LowerOf == [c \in {UpperChars[k] : k \in 1..Len(UpperChars)} |->
              LowerChars[CHOOSE k \in 1..Len(UpperChars) : UpperChars[k] = c]]

LowerChar(c) == IF c \in DOMAIN LowerOf THEN LowerOf[c] ELSE c

\* str.lower()
Lower(t) == [k \in 1..Len(t) |-> LowerChar(t[k])]

\* p in t (substring test)
Contains(t, p) == \E k \in 0..(Len(t) - Len(p)) : SubSeq(t, k + 1, k + Len(p)) = p

\* t.startswith(p)
StartsWith(t, p) == Len(t) >= Len(p) /\ SubSeq(t, 1, Len(p)) = p

\* index of the first occurrence of p in t (0-based offset), p occurring in t
FindFirst(t, p) == CHOOSE k \in 0..(Len(t) - Len(p)) :
                     /\ SubSeq(t, k + 1, k + Len(p)) = p
                     /\ \A m \in 0..(k - 1) : SubSeq(t, m + 1, m + Len(p)) /= p

\* t.split(p, 1): one or two parts
Split1(t, p) ==
  IF Contains(t, p)
  THEN LET k == FindFirst(t, p)
       IN << SubSeq(t, 1, k), SubSeq(t, k + Len(p) + 1, Len(t)) >>
  ELSE << t >>

Whitespace == {" ", "\t", "\n", "\r"}

RECURSIVE LStrip(_)
LStrip(t) == IF t /= <<>> /\ Head(t) \in Whitespace THEN LStrip(Tail(t)) ELSE t

RECURSIVE RStrip(_)
RStrip(t) == IF t /= <<>> /\ t[Len(t)] \in Whitespace
             THEN RStrip(SubSeq(t, 1, Len(t) - 1)) ELSE t

\* str.strip()
Strip(t) == RStrip(LStrip(t))

\* str.splitlines(), for the line boundary "\n"
RECURSIVE SplitLines(_)
SplitLines(t) ==
  IF t = <<>> THEN <<>>
  ELSE IF Contains(t, <<"\n">>)
       THEN LET k == FindFirst(t, <<"\n">>)
            IN <<SubSeq(t, 1, k)>> \o SplitLines(SubSeq(t, k + 2, Len(t)))
       ELSE <<t>>

\* the digits of a small non-negative integer, as str() prints them
Digits == <<"0","1","2","3","4","5","6","7","8","9">>
RECURSIVE StrInt(_)
StrInt(n) == IF n < 10 THEN <<Digits[n + 1]>>
             ELSE StrInt(n \div 10) \o <<Digits[(n % 10) + 1]>>

\* -------------------------------------------------- phrases of the code
PhraseOpen == <<"s","u","c","c","e","s","s","f","u","l","l","y">>
PhraseUpdate == <<"u","p","d","a","t","e","d"," ","s","u","c","c","e","s","s","f","u","l","l","y">>
PhraseMark == <<"c","o","m","p","l","e","t","e","d">>
PhraseRed == <<"p","o","s","i","t","i","o","n","e","d"," ","s","u","c","c","e","s","s","f","u","l","l","y">>
PhraseSave == <<"s","a","v","e","d"," ","s","u","c","c","e","s","s","f","u","l","l","y">>
TypeToken == <<"(","T","y","p","e",":">>
IdField == <<"i","d">>

\* ------------------------------------------------ the environment: files
PathA == <<"a",".","e","z","d">>
PathB == <<"b",".","e","z","d">>
PathMissing == <<"g","o","n","e",".","e","z","d">>
PathOut == <<"o","u","t",".","e","z","d">>
Paths == {PathA, PathB, PathMissing}
\* an existence check that always passes
PathExists_Always(p) == TRUE

\* os.path.exists
ExistingPaths == {PathA, PathB}
PathExists(p) == p \in ExistingPaths

\* ------------------------------------- the environment: bridge executable
OutOpened == <<"F","i","l","e"," ","o","p","e","n","e","d"," ","s","u","c","c","e","s","s","f","u","l","l","y">>
OutUpdated == <<"E","n","t","i","t","y"," ","u","p","d","a","t","e","d"," ","s","u","c","c","e","s","s","f","u","l","l","y"," ","f","o","r"," ","f","i","e","l","d"," ","X">>
OutUpdateFailed == <<"U","p","d","a","t","e"," ","f","a","i","l","e","d",":"," ","e","n","t","i","t","y"," ","n","o","t"," ","f","o","u","n","d">>
OutMarked == <<"M","a","r","k","i","n","g"," ","C","O","M","P","L","E","T","E","D">>
OutSaved == <<"F","i","l","e"," ","s","a","v","e","d"," ","s","u","c","c","e","s","s","f","u","l","l","y">>
OutPositioned == <<"R","e","d"," ","l","i","g","h","t"," ","p","o","s","i","t","i","o","n","e","d"," ","s","u","c","c","e","s","s","f","u","l","l","y">>
OutList1 == <<"E","n","t","i","t","i","e","s",":","\n","[","0","]"," ","S","e","r","i","a","l"," ","(","T","y","p","e",":"," ","T","e","x","t",")","\n","[","1","]"," ","i","d"," ","(","T","y","p","e",":"," ","T","e","x","t",")","\n","[","2","]"," ","S","e","r","i","a","l"," ","(","T","y","p","e",":"," ","T","e","x","t",")","\n">>
OutList2 == <<" "," ","[","0","]"," ","E","x","t","r","a","\n","[","1"," ","S","e","r","i","a","l"," ","(","T","y","p","e",":"," ","T","e","x","t",")","\n","[","2","]","S","e","r","i","a","l","(","T","y","p","e",":"," ","T","e","x","t",")">>
OutEmpty == <<>>
EngineOutputs == {OutOpened, OutUpdated, OutUpdateFailed, OutMarked, OutSaved,
                  OutPositioned, OutList1, OutList2, OutEmpty}
ErrLaunch == <<"[","W","i","n","E","r","r","o","r"," ","2","]">>
ErrEngine == <<"E">>

\* What one run of the executable can produce: the launch throws, or the
\* process exits with some code after writing some text.
EngineReplies ==
  {[launched |-> FALSE, stdout |-> <<>>, stderr |-> ErrLaunch, code |-> 0]}
  \cup {[launched |-> TRUE, stdout |-> o, stderr |-> <<>>, code |-> 0] :
          o \in EngineOutputs}
  \cup {[launched |-> TRUE, stdout |-> o, stderr |-> ErrEngine, code |-> 1] :
          o \in {OutUpdated}}

\* _run_bridge_command taking a launch that threw for a run that ended
RunBridgeCommand_NoHandler(reply) ==
  [output |-> reply.stdout, error |-> reply.stderr,
   return_code |-> reply.code, success |-> (reply.code = 0)]

\* _run_bridge_command: the BridgeResult dict
RunBridgeCommand(reply) ==
  IF reply.launched
  THEN [output |-> reply.stdout, error |-> reply.stderr,
        return_code |-> reply.code, success |-> (reply.code = 0)]
  ELSE [output |-> <<>>, error |-> reply.stderr,
        return_code |-> -1, success |-> FALSE]

\* ------------------------------------------------------ session operations
\* Each operation is a function of the session path, its arguments and the
\* reply of the one invocation it may issue.  It yields the value returned,
\* the session path afterwards and the invocations issued (none or one).
\* An invocation is recorded with the outcome its caller derived from it
\* (TRUE for list and info, which derive none).
Invocation(cmd, args, ok) == [cmd |-> cmd, args |-> args, ok |-> ok]

\* open_ezd_file without the existence check of lines 93-95
OpenEzdFile_NoExistsCheck(cur, ezd_file_path, reply) ==
  LET result == RunBridgeCommand(reply)
  IN IF Contains(Lower(result.output), PhraseOpen)
     THEN [ret |-> TRUE, cur |-> ezd_file_path,
           issued |-> <<Invocation("open", <<ezd_file_path>>, TRUE)>>]
     ELSE [ret |-> FALSE, cur |-> cur,
           issued |-> <<Invocation("open", <<ezd_file_path>>, FALSE)>>]

\* open_ezd_file recording the path before the outcome is known
OpenEzdFile_SetsBeforeOutcome(cur, ezd_file_path, reply) ==
  IF ~PathExists(ezd_file_path)
  THEN [ret |-> FALSE, cur |-> cur, issued |-> <<>>]
  ELSE LET result == RunBridgeCommand(reply)
           ok == Contains(Lower(result.output), PhraseOpen)
       IN [ret |-> ok, cur |-> ezd_file_path,
           issued |-> <<Invocation("open", <<ezd_file_path>>, ok)>>]

\* open_ezd_file dropping the session when the open fails
OpenEzdFile_ClearsOnFailure(cur, ezd_file_path, reply) ==
  IF ~PathExists(ezd_file_path)
  THEN [ret |-> FALSE, cur |-> cur, issued |-> <<>>]
  ELSE LET result == RunBridgeCommand(reply)
       IN IF Contains(Lower(result.output), PhraseOpen)
          THEN [ret |-> TRUE, cur |-> ezd_file_path,
                issued |-> <<Invocation("open", <<ezd_file_path>>, TRUE)>>]
          ELSE [ret |-> FALSE, cur |-> None,
                issued |-> <<Invocation("open", <<ezd_file_path>>, FALSE)>>]

\* open_ezd_file
OpenEzdFile(cur, ezd_file_path, reply) ==
  IF ~PathExists(ezd_file_path)
  THEN [ret |-> FALSE, cur |-> cur, issued |-> <<>>]
  ELSE LET result == RunBridgeCommand(reply)
       IN IF Contains(Lower(result.output), PhraseOpen)
          THEN [ret |-> TRUE, cur |-> ezd_file_path,
                issued |-> <<Invocation("open", <<ezd_file_path>>, TRUE)>>]
          ELSE [ret |-> FALSE, cur |-> cur,
                issued |-> <<Invocation("open", <<ezd_file_path>>, FALSE)>>]

\* update_text running its command again when it failed
UpdateText_RetriesOnce(cur, entity_name, new_text, reply) ==
  IF cur = None
  THEN [ret |-> FALSE, cur |-> cur, issued |-> <<>>]
  ELSE LET result == RunBridgeCommand(reply)
           ok == Contains(Lower(result.output), PhraseUpdate)
           one == Invocation("update", <<entity_name, new_text>>, ok)
       IN [ret |-> ok, cur |-> cur,
           issued |-> IF ok THEN <<one>> ELSE <<one, one>>]

\* update_text without the session check of lines 116-118
UpdateText_NoSessionCheck(cur, entity_name, new_text, reply) ==
  LET result == RunBridgeCommand(reply)
      ok == Contains(Lower(result.output), PhraseUpdate)
  IN [ret |-> ok, cur |-> cur,
      issued |-> <<Invocation("update", <<entity_name, new_text>>, ok)>>]

\* update_text
UpdateText(cur, entity_name, new_text, reply) ==
  IF cur = None
  THEN [ret |-> FALSE, cur |-> cur, issued |-> <<>>]
  ELSE LET result == RunBridgeCommand(reply)
           ok == Contains(Lower(result.output), PhraseUpdate)
       IN [ret |-> ok, cur |-> cur,
           issued |-> <<Invocation("update", <<entity_name, new_text>>, ok)>>]

\* an optional argument taken as given whatever it is
Truthy_Always(x) == TRUE

\* truth value of an optional text argument
Truthy(x) == x /= None /\ x /= <<>>

\* mark passing on whatever it was given as the entity name
Mark_AlwaysNamed(cur, entity_name, reply) ==
  IF cur = None
  THEN [ret |-> FALSE, cur |-> cur, issued |-> <<>>]
  ELSE LET result == RunBridgeCommand(reply)
           ok == Contains(Lower(result.output), PhraseMark)
       IN [ret |-> ok, cur |-> cur,
           issued |-> <<Invocation("mark", <<entity_name>>, ok)>>]

\* mark looking for its phrase in the output as written
Mark_CaseSensitive(cur, entity_name, reply) ==
  IF cur = None
  THEN [ret |-> FALSE, cur |-> cur, issued |-> <<>>]
  ELSE LET command == IF Truthy(entity_name) THEN <<entity_name>> ELSE <<>>
           result == RunBridgeCommand(reply)
           ok == Contains(result.output, PhraseMark)
       IN [ret |-> ok, cur |-> cur,
           issued |-> <<Invocation("mark", command, ok)>>]

\* mark
Mark(cur, entity_name, reply) ==
  IF cur = None
  THEN [ret |-> FALSE, cur |-> cur, issued |-> <<>>]
  ELSE LET command == IF Truthy(entity_name) THEN <<entity_name>> ELSE <<>>
           result == RunBridgeCommand(reply)
           ok == Contains(Lower(result.output), PhraseMark)
       IN [ret |-> ok, cur |-> cur,
           issued |-> <<Invocation("mark", command, ok)>>]

\* red_light
RedLight(cur, x, y, reply) ==
  IF cur = None
  THEN [ret |-> FALSE, cur |-> cur, issued |-> <<>>]
  ELSE LET result == RunBridgeCommand(reply)
           ok == Contains(Lower(result.output), PhraseRed)
       IN [ret |-> ok, cur |-> cur,
           issued |-> <<Invocation("red", <<StrInt(x), StrInt(y)>>, ok)>>]

\* the loop body of list_entities keeping the type with the name
EntityOfLine_KeepsType(rawline) ==
  LET line == Strip(rawline)
  IN IF StartsWith(line, <<"[">>) /\ Contains(line, <<"]">>)
     THEN LET parts == Split1(line, <<"]">>)
          IN IF Len(parts) > 1
             THEN <<Strip(parts[2])>>
             ELSE <<>>
     ELSE <<>>

\* the loop body of list_entities: the names a line contributes
EntityOfLine(rawline) ==
  LET line == Strip(rawline)
  IN IF StartsWith(line, <<"[">>) /\ Contains(line, <<"]">>)
     THEN LET parts == Split1(line, <<"]">>)
          IN IF Len(parts) > 1
             THEN LET entity_info == Strip(parts[2])
                      name_parts == Split1(entity_info, TypeToken)
                  IN <<Strip(name_parts[1])>>
             ELSE <<>>
     ELSE <<>>

RECURSIVE EntitiesOfLines(_)
EntitiesOfLines(lines) ==
  IF lines = <<>> THEN <<>>
  ELSE EntityOfLine(Head(lines)) \o EntitiesOfLines(Tail(lines))

\* list_entities running its command twice
ListEntities_IssuesTwice(cur, reply) ==
  IF cur = None
  THEN [ret |-> <<>>, cur |-> cur, issued |-> <<>>]
  ELSE LET result == RunBridgeCommand(reply)
       IN [ret |-> EntitiesOfLines(SplitLines(result.output)), cur |-> cur,
           issued |-> <<Invocation("list", <<>>, TRUE),
                        Invocation("list", <<>>, TRUE)>>]

\* list_entities
ListEntities(cur, reply) ==
  IF cur = None
  THEN [ret |-> <<>>, cur |-> cur, issued |-> <<>>]
  ELSE LET result == RunBridgeCommand(reply)
       IN [ret |-> EntitiesOfLines(SplitLines(result.output)), cur |-> cur,
           issued |-> <<Invocation("list", <<>>, TRUE)>>]

\* save_ezd_file taking the saved file for the session
SaveEzdFile_AdoptsOutput(cur, out_path, reply) ==
  IF cur = None
  THEN [ret |-> FALSE, cur |-> cur, issued |-> <<>>]
  ELSE LET result == RunBridgeCommand(reply)
           ok == Contains(Lower(result.output), PhraseSave)
       IN [ret |-> ok, cur |-> IF ok THEN out_path ELSE cur,
           issued |-> <<Invocation("save", <<out_path>>, ok)>>]

\* save_ezd_file looking for the phrase of open
SaveEzdFile_AnySuccessfully(cur, out_path, reply) ==
  IF cur = None
  THEN [ret |-> FALSE, cur |-> cur, issued |-> <<>>]
  ELSE LET result == RunBridgeCommand(reply)
           ok == Contains(Lower(result.output), PhraseOpen)
       IN [ret |-> ok, cur |-> cur,
           issued |-> <<Invocation("save", <<out_path>>, ok)>>]

\* save_ezd_file
SaveEzdFile(cur, out_path, reply) ==
  IF cur = None
  THEN [ret |-> FALSE, cur |-> cur, issued |-> <<>>]
  ELSE LET result == RunBridgeCommand(reply)
           ok == Contains(Lower(result.output), PhraseSave)
       IN [ret |-> ok, cur |-> cur,
           issued |-> <<Invocation("save", <<out_path>>, ok)>>]

\* get_bridge_info
GetBridgeInfo(cur, reply) ==
  LET result == RunBridgeCommand(reply)
  IN [ret |-> result, cur |-> cur,
      issued |-> <<Invocation("info", <<>>, TRUE)>>]

\* ------------------------------------------------------------ batch input
KeySerial == <<"S","e","r","i","a","l">>
KeyExtra == <<"E","x","t","r","a">>
FieldKeys == {IdField, KeySerial, KeyExtra}

\* a cell value: a text, a number, or an object whose __str__ raises
TextValue == [kind |-> "str", text |-> <<"S","N","1">>, num |-> 0]
NumValue == [kind |-> "int", text |-> <<>>, num |-> 42]
BadValue == [kind |-> "bad", text |-> <<>>, num |-> 0]
Values == {NumValue, BadValue}

\* str(value), for a value on which it does not raise
Str(v) == IF v.kind = "int" THEN StrInt(v.num) ELSE v.text
StrRaises(v) == v.kind = "bad"

Fields == [key : FieldKeys, value : Values]

\* a dict keeps insertion order and has distinct keys
Dicts == {s \in UNION {[1..n -> Fields] : n \in 0..MaxFields} :
            \A a, b \in DOMAIN s : a /= b => s[a].key /= s[b].key}

\* an element of data_items: a dict, or an object without .get/.items
NotADict == [mapping |-> FALSE, items |-> <<>>]
DataItems == {NotADict} \cup {[mapping |-> TRUE, items |-> d] : d \in Dicts}

HasKey(d, k) == \E a \in DOMAIN d : d[a].key = k
\* dict.get(k) for a key the dict has
ValueOf(d, k) == d[CHOOSE a \in DOMAIN d : d[a].key = k].value

\* lines 260-261: the row's prologue raises when the item has no .get, or
\* when formatting its id into the log line raises
PrologueRaises(item) ==
  \/ ~item.mapping
  \/ HasKey(item.items, IdField) /\ StrRaises(ValueOf(item.items, IdField))

\* `x in available_entities`
InList(x, list) == \E k \in 1..Len(list) : list[k] = x

\* -------------------------------------------------- process_data, by parts
\* every field but the id updated, discovered or not
ShouldUpdate_AnyField(entity_name, available) == entity_name /= IdField

\* the id field not skipped
ShouldUpdate_IdNotSkipped(entity_name, available) == InList(entity_name, available)

\* lines 266-267: the fields that get an update call
ShouldUpdate(entity_name, available) ==
  entity_name /= IdField /\ InList(entity_name, available)

\* lines 268-270: update_success after one update call
AfterUpdate(success_so_far, update_ret) ==
  IF ~update_ret THEN FALSE ELSE success_so_far

\* the mark issued whatever the updates returned
ShouldMark_Always(success_so_far) == TRUE

\* an index moved past its row
NextIndex_SkipsOne(k) == k + 2

\* line 258: enumerate moves to the next row
NextIndex(k) == k + 1

\* line 274: the row is marked
ShouldMark(success_so_far) == success_so_far

\* the row counted as a success before its mark, and again when the mark fails
CountRow_SuccessBeforeMark(st, success_so_far, mark_ret) ==
  IF success_so_far
  THEN IF mark_ret
       THEN [st EXCEPT !.success = @ + 1]
       ELSE [st EXCEPT !.success = @ + 1, !.errors = @ + 1]
  ELSE [st EXCEPT !.errors = @ + 1]

\* the mark's outcome ignored when counting
CountRow_MarkIgnored(st, success_so_far, mark_ret) ==
  IF success_so_far
  THEN [st EXCEPT !.success = @ + 1]
  ELSE [st EXCEPT !.errors = @ + 1]

\* lines 274-282: the counters after a row that raised nothing
CountRow(st, success_so_far, mark_ret) ==
  IF success_so_far
  THEN IF mark_ret
       THEN [st EXCEPT !.success = @ + 1]
       ELSE [st EXCEPT !.errors = @ + 1]
  ELSE [st EXCEPT !.errors = @ + 1]

\* a raising row counted nowhere
CountException_NotCounted(st) == st

\* a raising row counted in the handler and once more
CountException_CountsTwice(st) == [st EXCEPT !.errors = @ + 2]

\* lines 284-286: the counters after a row that raised
CountException(st) == [st EXCEPT !.errors = @ + 1]

\* lines 242-247: time is counted in bridge invocations since the call began
NewStats(n) == [total |-> n, success |-> 0, errors |-> 0, start_time |-> 0]

\* lines 292-295
FinalStats(st, now) ==
  [total |-> st.total, success |-> st.success, errors |-> st.errors,
   start_time |-> st.start_time, end_time |-> now,
   duration |-> now - st.start_time]

\* line 240 and line 251
TemplateNotFound == [success |-> FALSE, error |-> "Template file not found"]
OpenFailed == [success |-> FALSE, error |-> "Failed to open template file"]

\* ------------------------------------------------------------------ state
VARIABLES
  current_ezd_file,    \* EZCADBridge.current_ezd_file: None or a path
  pc,                  \* where the caller of the bridge is
  calls,               \* the invocations issued by the current (or last) call
  result,              \* what the last call returned
  last,                \* the call made last: its name, arguments and the session before it
  reopened,            \* the last call repeated a successful open of the same path
  bridge,              \* what the invocation of the last direct call got back, if it issued one
  ezd_template,        \* process_data: argument
  output_path,         \* process_data: argument
  stats,               \* process_data: stats
  available_entities,  \* process_data: available_entities
  i,                   \* process_data: 1-based index of the row at hand
  data_item,           \* process_data: data_items[i-1], drawn when the loop reaches it
  j,                   \* process_data: index of the field at hand in data_item.items()
  update_success,      \* process_data: update_success
  row_start,           \* the counters when the row at hand began
  raised,              \* the row at hand ended in the except clause
  integration_bridge,  \* EZCADIntegration.bridge is not None
  th                   \* the worker threads running a call of the integration object

vars == <<current_ezd_file, pc, calls, result, last, reopened, bridge,
          ezd_template,
          output_path, stats, available_entities, i, data_item, j,
          update_success, row_start, raised, integration_bridge, th>>

\* the integration object and the threads that call it
app == <<integration_bridge, th>>

locals == <<ezd_template, output_path, stats, available_entities, i,
            data_item, j, update_success, row_start, raised>>

NoResult == [kind |-> "none", val |-> FALSE]
BoolResult(b) == [kind |-> "bool", val |-> b]
ListResult(l) == [kind |-> "list", val |-> l]
DictResult(d) == [kind |-> "dict", val |-> d]

\* the invocations of an operation, as the log records them
Logged(op, row) ==
  [k \in 1..Len(op.issued) |->
     [cmd |-> op.issued[k].cmd, args |-> op.issued[k].args,
      ok |-> op.issued[k].ok, row |-> row]]

Entry(name, args) == [op |-> name, args |-> args, before |-> current_ezd_file]

\* no invocation observed
NoBridge ==
  [invoked |-> FALSE,
   reply |-> [launched |-> FALSE, stdout |-> <<>>, stderr |-> <<>>, code |-> 0],
   result |-> [output |-> <<>>, error |-> <<>>, return_code |-> 0,
               success |-> FALSE]]

\* the reply of an invocation and the BridgeResult made of it
Observed(op, reply) ==
  IF op.issued = <<>> THEN NoBridge
  ELSE [invoked |-> TRUE, reply |-> reply, result |-> RunBridgeCommand(reply)]

ResetLocals ==
  /\ ezd_template' = None
  /\ output_path' = None
  /\ stats' = NewStats(0)
  /\ available_entities' = <<>>
  /\ i' = 0
  /\ data_item' = NotADict
  /\ j' = 0
  /\ update_success' = TRUE
  /\ row_start' = NewStats(0)
  /\ raised' = FALSE

\* ----------------------------------------------- the integration object
\* worker threads of the window alive at once (main.py lines 431, 460, 519)
MaxWorkers == 2
Workers == 1..MaxWorkers

\* save_processed_status was not called
NoStatus == [called |-> FALSE, rows |-> {}]

\* a worker that runs nothing
IdleWorker ==
  [job |-> "none", pc |-> "idle", hangs |-> FALSE, ezd |-> None,
   excel |-> "none", rows |-> 0, out |-> None, lag |-> 0,
   stats |-> NewStats(0), ents |-> <<>>, i |-> 0, update_success |-> TRUE,
   issued |-> <<>>, final |-> NoResult, ret |-> NoResult,
   wb |-> "off", status |-> NoStatus,
   report |-> [kind |-> "none", success |-> 0, total |-> 0, error |-> ""]]

\* line 71
BridgeInit ==
  /\ current_ezd_file = None
  /\ pc = "idle"
  /\ calls = <<>>
  /\ result = NoResult
  /\ last = [op |-> "none", args |-> <<>>, before |-> None]
  /\ reopened = FALSE
  /\ bridge = NoBridge
  /\ ezd_template = None
  /\ output_path = None
  /\ stats = NewStats(0)
  /\ available_entities = <<>>
  /\ i = 0
  /\ data_item = NotADict
  /\ j = 0
  /\ update_success = TRUE
  /\ row_start = NewStats(0)
  /\ raised = FALSE

\* lines 39-50 of ezcad_integration.py: the bridge was built; no call runs
Init ==
  /\ BridgeInit
  /\ integration_bridge = TRUE
  /\ th = [t \in Workers |-> IdleWorker]

\* ------------------------------------------- direct calls of the session
Direct(name, args, res, op, reply) ==
  /\ pc = "idle"
  /\ current_ezd_file' = op.cur
  /\ calls' = Logged(op, 0)
  /\ result' = res
  /\ last' = Entry(name, args)
  /\ reopened' = (name = "open" /\ last.op = "open" /\ last.args = args
                    /\ result.val = TRUE)
  /\ bridge' = Observed(op, reply)
  /\ UNCHANGED app
  /\ UNCHANGED <<pc, locals>>

CallOpen(path, reply) ==
  LET op == OpenEzdFile(current_ezd_file, path, reply)
  IN Direct("open", <<path>>, BoolResult(op.ret), op, reply)

CallUpdateText(entity_name, new_text, reply) ==
  LET op == UpdateText(current_ezd_file, entity_name, new_text, reply)
  IN Direct("update", <<entity_name, new_text>>, BoolResult(op.ret), op, reply)

CallMark(entity_name, reply) ==
  LET op == Mark(current_ezd_file, entity_name, reply)
  IN Direct("mark", <<entity_name>>, BoolResult(op.ret), op, reply)

CallRedLight(x, y, reply) ==
  LET op == RedLight(current_ezd_file, x, y, reply)
  IN Direct("red", <<StrInt(x), StrInt(y)>>, BoolResult(op.ret), op, reply)

CallListEntities(reply) ==
  LET op == ListEntities(current_ezd_file, reply)
  IN Direct("list", <<>>, ListResult(op.ret), op, reply)

CallSave(out_path, reply) ==
  LET op == SaveEzdFile(current_ezd_file, out_path, reply)
  IN Direct("save", <<out_path>>, BoolResult(op.ret), op, reply)

CallGetBridgeInfo(reply) ==
  LET op == GetBridgeInfo(current_ezd_file, reply)
  IN Direct("info", <<>>, DictResult(op.ret), op, reply)

\* ------------------------------------------------------------ process_data
\* lines 238-247: the existence check and the fresh stats
ProcessDataBegin(template, n, out_path) ==
  /\ pc = "idle"
  /\ last' = [op |-> "process_data", args |-> <<template>>, before |-> None]
  /\ reopened' = FALSE
  /\ bridge' = NoBridge
  /\ calls' = <<>>
  /\ UNCHANGED app
  /\ IF ~PathExists(template)
     THEN /\ result' = DictResult(TemplateNotFound)
          /\ UNCHANGED <<current_ezd_file, pc, locals>>
     ELSE /\ result' = NoResult
          /\ pc' = "pd_open"
          /\ ezd_template' = template
          /\ output_path' = out_path
          /\ stats' = NewStats(n)
          /\ UNCHANGED <<current_ezd_file, available_entities, i, data_item,
                         j, update_success, row_start, raised>>

\* the batch going on after a failed open
ProcessDataOpen_NoAbort(reply) ==
  /\ pc = "pd_open"
  /\ LET op == OpenEzdFile(current_ezd_file, ezd_template, reply)
     IN /\ current_ezd_file' = op.cur
        /\ calls' = calls \o Logged(op, 0)
  /\ pc' = "pd_list"
  /\ UNCHANGED app
  /\ UNCHANGED <<result, locals, last, reopened, bridge>>

\* lines 249-251: the template is opened, or the batch is given up
ProcessDataOpen(reply) ==
  /\ pc = "pd_open"
  /\ LET op == OpenEzdFile(current_ezd_file, ezd_template, reply)
     IN /\ current_ezd_file' = op.cur
        /\ calls' = calls \o Logged(op, 0)
        /\ IF ~op.ret
           THEN /\ result' = DictResult(OpenFailed)
                /\ pc' = "idle"
                /\ ResetLocals
           ELSE /\ pc' = "pd_list"
                /\ UNCHANGED <<result, locals>>
  /\ UNCHANGED app
  /\ UNCHANGED <<last, reopened, bridge>>

\* lines 254-255: the entities are listed once, before the loop
ProcessDataList(reply) ==
  /\ pc = "pd_list"
  /\ LET op == ListEntities(current_ezd_file, reply)
     IN /\ available_entities' = op.ret
        /\ current_ezd_file' = op.cur
        /\ calls' = calls \o Logged(op, 0)
  /\ i' = 1
  /\ pc' = "pd_loop"
  /\ UNCHANGED app
  /\ UNCHANGED <<result, last, reopened, bridge, ezd_template, output_path, stats, data_item,
                 j, update_success, row_start, raised>>

\* lines 258-264: the loop yields the next row; its prologue may raise
ProcessDataRow(item) ==
  /\ pc = "pd_loop"
  /\ i <= stats.total
  /\ data_item' = item
  /\ row_start' = stats
  /\ IF PrologueRaises(item)
     THEN /\ stats' = CountException(stats)
          /\ raised' = TRUE
          /\ i' = NextIndex(i)
          /\ UNCHANGED <<pc, j, update_success>>
     ELSE /\ raised' = FALSE
          /\ update_success' = TRUE
          /\ j' = 1
          /\ pc' = "pd_field"
          /\ UNCHANGED <<stats, i>>
  /\ UNCHANGED app
  /\ UNCHANGED <<current_ezd_file, calls, result, last, reopened, bridge, ezd_template,
                 output_path, available_entities>>

\* the field loop left at the first update that fails
ProcessDataField_BreaksOnFailure(reply) ==
  /\ pc = "pd_field"
  /\ j <= Len(data_item.items)
  /\ LET entity_name == data_item.items[j].key
         text_value == data_item.items[j].value
     IN IF ShouldUpdate(entity_name, available_entities)
        THEN IF StrRaises(text_value)
             THEN /\ stats' = CountException(stats)
                  /\ raised' = TRUE
                  /\ i' = NextIndex(i)
                  /\ pc' = "pd_loop"
                  /\ UNCHANGED <<current_ezd_file, calls, j, update_success>>
             ELSE LET op == UpdateText(current_ezd_file, entity_name,
                                       Str(text_value), reply)
                  IN /\ current_ezd_file' = op.cur
                     /\ calls' = calls \o Logged(op, i)
                     /\ update_success' = AfterUpdate(update_success, op.ret)
                     /\ j' = IF op.ret THEN j + 1 ELSE Len(data_item.items) + 1
                     /\ UNCHANGED <<stats, raised, i, pc>>
        ELSE /\ j' = j + 1
             /\ UNCHANGED <<current_ezd_file, calls, update_success, stats,
                            raised, i, pc>>
  /\ UNCHANGED app
  /\ UNCHANGED <<result, last, reopened, bridge, ezd_template, output_path,
                 available_entities, data_item, row_start>>

\* lines 265-272: one field of the row
ProcessDataField(reply) ==
  /\ pc = "pd_field"
  /\ j <= Len(data_item.items)
  /\ LET entity_name == data_item.items[j].key
         text_value == data_item.items[j].value
     IN IF ShouldUpdate(entity_name, available_entities)
        THEN IF StrRaises(text_value)
             THEN /\ stats' = CountException(stats)
                  /\ raised' = TRUE
                  /\ i' = NextIndex(i)
                  /\ pc' = "pd_loop"
                  /\ UNCHANGED <<current_ezd_file, calls, j, update_success>>
             ELSE LET op == UpdateText(current_ezd_file, entity_name,
                                       Str(text_value), reply)
                  IN /\ current_ezd_file' = op.cur
                     /\ calls' = calls \o Logged(op, i)
                     /\ update_success' = AfterUpdate(update_success, op.ret)
                     /\ j' = j + 1
                     /\ UNCHANGED <<stats, raised, i, pc>>
        ELSE /\ j' = j + 1
             /\ UNCHANGED <<current_ezd_file, calls, update_success, stats,
                            raised, i, pc>>
  /\ UNCHANGED app
  /\ UNCHANGED <<result, last, reopened, bridge, ezd_template, output_path,
                 available_entities, data_item, row_start>>

\* lines 274-282: after the last field, the mark and the counters
ProcessDataMark(reply) ==
  /\ pc = "pd_field"
  /\ j > Len(data_item.items)
  /\ IF ShouldMark(update_success)
     THEN LET op == Mark(current_ezd_file, None, reply)
          IN /\ current_ezd_file' = op.cur
             /\ calls' = calls \o Logged(op, i)
             /\ stats' = CountRow(stats, update_success, op.ret)
     ELSE /\ stats' = CountRow(stats, update_success, FALSE)
          /\ UNCHANGED <<current_ezd_file, calls>>
  /\ i' = NextIndex(i)
  /\ pc' = "pd_loop"
  /\ UNCHANGED app
  /\ UNCHANGED <<result, last, reopened, bridge, ezd_template, output_path,
                 available_entities, data_item, j, update_success, row_start,
                 raised>>

\* the return reached only on the branch that saves
ProcessDataFinish_ReturnsAfterSave(reply) ==
  /\ pc = "pd_loop"
  /\ i > stats.total
  /\ Truthy(output_path)
  /\ LET op == SaveEzdFile(current_ezd_file, output_path, reply)
     IN /\ current_ezd_file' = op.cur
        /\ calls' = calls \o Logged(op, 0)
  /\ result' = DictResult(FinalStats(stats, Len(calls')))
  /\ pc' = "idle"
  /\ ResetLocals
  /\ UNCHANGED app
  /\ UNCHANGED <<last, reopened, bridge>>

\* lines 288-295: the optional save, the time stamps and the return
ProcessDataFinish(reply) ==
  /\ pc = "pd_loop"
  /\ i > stats.total
  /\ IF Truthy(output_path)
     THEN LET op == SaveEzdFile(current_ezd_file, output_path, reply)
          IN /\ current_ezd_file' = op.cur
             /\ calls' = calls \o Logged(op, 0)
     ELSE UNCHANGED <<current_ezd_file, calls>>
  /\ result' = DictResult(FinalStats(stats, Len(calls')))
  /\ pc' = "idle"
  /\ ResetLocals
  /\ UNCHANGED app
  /\ UNCHANGED <<last, reopened, bridge>>

\* ------------------------------------------------------- the specification

Next ==
  \/ \E p \in Paths, r \in EngineReplies : CallOpen(p, r)
  \/ \E r \in EngineReplies : CallUpdateText(KeySerial, Str(TextValue), r)
  \/ \E e \in {None, <<>>, KeySerial}, r \in EngineReplies : CallMark(e, r)
  \/ \E r \in EngineReplies : CallRedLight(12, 7, r)
  \/ \E r \in EngineReplies : CallListEntities(r)
  \/ \E r \in EngineReplies : CallSave(PathOut, r)
  \/ \E r \in EngineReplies : CallGetBridgeInfo(r)
  \/ \E t \in {PathA, PathMissing}, n \in 0..MaxRows, o \in {None, PathOut} :
       ProcessDataBegin(t, n, o)
  \/ \E r \in EngineReplies : ProcessDataOpen(r)
  \/ \E r \in EngineReplies : ProcessDataList(r)
  \/ \E item \in DataItems : ProcessDataRow(item)
  \/ \E r \in EngineReplies : ProcessDataField(r)
  \/ \E r \in EngineReplies : ProcessDataMark(r)
  \/ \E r \in EngineReplies : ProcessDataFinish(r)

Spec == Init /\ [][Next]_vars

\* the replies that decide an operation looking for one of the given texts:
\* the process is not launched, or it exits with code 0 and that output
RepliesWith(outs) ==
  {r \in EngineReplies : ~r.launched \/ (r.code = 0 /\ r.stdout \in outs)}

\* the steps of a call of process_data that has begun: each is straight-line
\* code around one blocking invocation, lines 249-295
ProcessDataStep ==
  \/ \E r \in RepliesWith({OutOpened}) : ProcessDataOpen(r)
  \/ \E r \in RepliesWith({OutList1, OutList2}) : ProcessDataList(r)
  \/ \E item \in DataItems : ProcessDataRow(item)
  \/ \E r \in RepliesWith({OutUpdated}) : ProcessDataField(r)
  \/ \E r \in RepliesWith({OutMarked}) : ProcessDataMark(r)
  \/ \E r \in RepliesWith({OutSaved}) : ProcessDataFinish(r)

\* calls of process_data, one after the other, on a session that a direct
\* open may have set before
BatchNext ==
  \/ \E p \in Paths, r \in RepliesWith({OutOpened}) : CallOpen(p, r)
  \/ \E t \in {PathA, PathMissing}, n \in 0..MaxRows, o \in {None, PathOut} :
       ProcessDataBegin(t, n, o)
  \/ ProcessDataStep

\* every invocation returns: the thread inside process_data goes on running
SpecLive == Init /\ [][BatchNext]_vars /\ WF_vars(ProcessDataStep)

\* result.get('total', 0)
GetTotal(d) == IF "total" \in DOMAIN d THEN d.total ELSE 0

\* ------------------------------------ EZCADIntegration and its callers
\* rows a spreadsheet may hold
MaxSheetRows == 2
\* the time process_excel_file spends outside process_data, in clock ticks
MaxLag == 1

\* a spreadsheet: not there, unreadable, or so many rows of the one column
\* "Serial" (load_excel, line 78)
Sheets ==
  {[exists |-> FALSE, readable |-> FALSE, rows |-> 0],
   [exists |-> TRUE, readable |-> FALSE, rows |-> 0]}
  \cup {[exists |-> TRUE, readable |-> TRUE, rows |-> n] : n \in 0..MaxSheetRows}

\* lines 91-97: the item made of a row; its id is a str, its one cell a number
SheetItem ==
  [mapping |-> TRUE,
   items |-> <<[key |-> IdField, value |-> TextValue],
               [key |-> KeySerial, value |-> NumValue]>>]
\* the one field of SheetItem that is not the id
SheetField == SheetItem.items[2]

\* lines 67, 71, 75, 80
BridgeNotInitialized == [success |-> FALSE, error |-> "EZCAD Bridge not initialized"]
ExcelNotFound == [success |-> FALSE, error |-> "Excel file not found"]
EzdTemplateNotFound == [success |-> FALSE, error |-> "EZD template file not found"]
LoadFailed == [success |-> FALSE, error |-> "Failed to load Excel file"]

\* the end time stamped again by the caller
WithRows_RestampsEnd(d, n, duration) ==
  [k \in DOMAIN d \cup {"total_rows", "duration"} |->
     IF k = "total_rows" THEN n
     ELSE IF k = "duration" \/ k = "end_time" THEN duration
     ELSE d[k]]

\* lines 104-105: two keys written into the dict process_data returned
WithRows(d, n, duration) ==
  [k \in DOMAIN d \cup {"total_rows", "duration"} |->
     IF k = "total_rows" THEN n
     ELSE IF k = "duration" THEN duration
     ELSE d[k]]

\* main.py line 533, ezcad_integration.py line 245: the truth value of
\* result.get('success', False), a bool in an error dict and a count in stats
SuccessIsTrue(d) ==
  IF "total" \in DOMAIN d THEN d.success > 0 ELSE d.success

\* main.py lines 533-550: what the window shows for a result
ProcessReport(d) ==
  IF SuccessIsTrue(d)
  THEN [kind |-> "complete", success |-> d.success, total |-> GetTotal(d),
        error |-> ""]
  ELSE [kind |-> "error", success |-> 0, total |-> 0,
        error |-> IF "error" \in DOMAIN d THEN d.error ELSE "Unknown error"]

\* main.py lines 438-443 and 468-476: the outcome shown for a test or a list
PlainReport(kind) == [kind |-> kind, success |-> 0, total |-> 0, error |-> ""]

\* a worker enters _run_bridge_command with one more command
StartCmd(w, cmd, h) ==
  [w EXCEPT !.pc = cmd, !.hangs = h, !.issued = Append(@, cmd)]

\* the locals of a call that returns are dropped
Dropped(w) ==
  [w EXCEPT !.pc = "done", !.hangs = FALSE, !.stats = NewStats(0),
            !.ents = <<>>, !.i = 0, !.update_success = TRUE]

\* test_integration or list_entities_in_template returns
ReturnWith(w, res) ==
  [Dropped(w) EXCEPT !.ret = res, !.report = PlainReport(res.kind)]

\* process_excel_file returns before it has called process_data
ReturnEarly(w, d) ==
  [Dropped(w) EXCEPT !.ret = DictResult(d), !.report = ProcessReport(d)]

\* the setting update_excel_status and what save_processed_status does when
\* it is called: it returns, or it raises
WriteBacks == {"off", "saved", "raises"}

\* only the rows process_data counted as succeeded are handed over
ProcessedRows_SucceededOnly(n, d) ==
  IF "total" \in DOMAIN d THEN 0..(d.success - 1) ELSE {}

\* line 110: list(range(len(df))), whatever process_data returned
ProcessedRows(n, d) == 0..(n - 1)

\* lines 108-114: the call of save_processed_status, when the setting is on;
\* what it raises is caught and logged
SaveStatus(wb, n, d) ==
  IF wb = "off" THEN NoStatus
  ELSE [called |-> TRUE, rows |-> ProcessedRows(n, d)]

\* process_data returns d; lines 104-116 of process_excel_file, then the window
ReturnBatch(w, d) ==
  LET r == WithRows(d, w.rows, Len(w.issued) + w.lag)
  IN [Dropped(w) EXCEPT !.final = DictResult(d), !.ret = DictResult(r),
                         !.status = SaveStatus(w.wb, w.rows, d),
                         !.report = ProcessReport(r)]

\* lines 259-274 on SheetItem: the row starts with its update, or with its
\* mark when its field is no entity of the template
StartRow(w, h) ==
  IF ShouldUpdate(SheetField.key, w.ents)
  THEN StartCmd([w EXCEPT !.update_success = TRUE], "update", h)
  ELSE StartCmd([w EXCEPT !.update_success = TRUE], "mark", h)

\* lines 258 and 288-295: the next row, or the save, or the return
Continue(w, h) ==
  IF w.i <= w.stats.total
  THEN StartRow(w, h)
  ELSE IF Truthy(w.out)
       THEN StartCmd(w, "save", h)
       ELSE ReturnBatch(w, FinalStats(w.stats, Len(w.issued)))

\* what the session variables of a direct caller do meanwhile: nothing
SessionSide == <<pc, calls, result, last, reopened, bridge, locals>>

Become(t, w) == th' = [th EXCEPT ![t] = w]

\* --------------------------------------------- the calls, step by step
\* A worker's step runs from the return of one _run_bridge_command to the
\* entry of the next, or to the return of the call.  The process a worker
\* waits for may never exit (hangs): communicate() then never returns.

\* test_integration going to the bridge without looking whether there is one
AppTestBridge_NoBridgeCheck(t, ezd, h) ==
  /\ th[t].pc = "idle"
  /\ Become(t, StartCmd([IdleWorker EXCEPT !.job = "test", !.ezd = ezd],
                        "info", h))
  /\ UNCHANGED <<current_ezd_file, integration_bridge, SessionSide>>

\* test_integration, lines 155-160
AppTestBridge(t, ezd, h) ==
  /\ th[t].pc = "idle"
  /\ LET w == [IdleWorker EXCEPT !.job = "test", !.ezd = ezd]
     IN IF ~integration_bridge
        THEN Become(t, ReturnWith(w, BoolResult(FALSE)))
        ELSE Become(t, StartCmd(w, "info", h))
  /\ UNCHANGED <<current_ezd_file, integration_bridge, SessionSide>>

\* list_entities_in_template, lines 128-137, and open_ezd_file to its command
AppListEntities(t, ezd, h) ==
  /\ th[t].pc = "idle"
  /\ LET w == [IdleWorker EXCEPT !.job = "list", !.ezd = ezd]
     IN IF ~integration_bridge \/ ~PathExists(ezd)
        THEN Become(t, ReturnWith(w, ListResult(<<>>)))
        ELSE Become(t, StartCmd(w, "open", h))
  /\ UNCHANGED <<current_ezd_file, integration_bridge, SessionSide>>

\* process_excel_file, lines 65-101, and process_data to its open command
AppProcessExcel(t, sheet, ezd, out, h, lag, wb) ==
  /\ th[t].pc = "idle"
  /\ LET w == [IdleWorker EXCEPT
                 !.job = "process", !.ezd = ezd, !.out = out, !.lag = lag,
                 !.wb = wb,
                 !.excel = IF ~sheet.exists THEN "missing"
                           ELSE IF ~sheet.readable THEN "unreadable"
                           ELSE "loaded",
                 !.rows = sheet.rows]
     IN IF ~integration_bridge
        THEN Become(t, ReturnEarly(w, BridgeNotInitialized))
        ELSE IF ~sheet.exists
        THEN Become(t, ReturnEarly(w, ExcelNotFound))
        ELSE IF ~PathExists(ezd)
        THEN Become(t, ReturnEarly(w, EzdTemplateNotFound))
        ELSE IF ~sheet.readable
        THEN Become(t, ReturnEarly(w, LoadFailed))
        ELSE Become(t, StartCmd([w EXCEPT !.stats = NewStats(sheet.rows)],
                                "open", h))
  /\ UNCHANGED <<current_ezd_file, integration_bridge, SessionSide>>

\* test_integration, lines 160-168: info is back, then the template
AppInfoDone(t, reply, h) ==
  /\ th[t].pc = "info"
  /\ ~th[t].hangs
  /\ IF ~PathExists(th[t].ezd)
     THEN Become(t, ReturnWith(th[t], BoolResult(FALSE)))
     ELSE Become(t, StartCmd(th[t], "open", h))
  /\ UNCHANGED <<current_ezd_file, integration_bridge, SessionSide>>

\* open_ezd_file returns to its caller: lines 137-142, 168-173, 249-254
AppOpenDone(t, reply, h) ==
  /\ th[t].pc = "open"
  /\ ~th[t].hangs
  /\ LET w == th[t]
         op == OpenEzdFile(current_ezd_file, w.ezd, reply)
     IN /\ current_ezd_file' = op.cur
        /\ IF op.ret
           THEN Become(t, StartCmd(w, "list", h))
           ELSE IF w.job = "test"
           THEN Become(t, ReturnWith(w, BoolResult(FALSE)))
           ELSE IF w.job = "list"
           THEN Become(t, ReturnWith(w, ListResult(<<>>)))
           ELSE Become(t, ReturnBatch(w, OpenFailed))
  /\ UNCHANGED <<integration_bridge, SessionSide>>

\* list_entities returns to its caller: lines 142-143, 173-176, 254-258
AppListDone(t, reply, h) ==
  /\ th[t].pc = "list"
  /\ ~th[t].hangs
  /\ LET w == th[t]
         op == ListEntities(current_ezd_file, reply)
     IN /\ current_ezd_file' = op.cur
        /\ IF w.job = "test"
           THEN Become(t, ReturnWith(w, BoolResult(TRUE)))
           ELSE IF w.job = "list"
           THEN Become(t, ReturnWith(w, ListResult(op.ret)))
           ELSE Become(t, Continue([w EXCEPT !.ents = op.ret, !.i = 1], h))
  /\ UNCHANGED <<integration_bridge, SessionSide>>

\* update_text returns to process_data: lines 268-282
AppUpdateDone(t, reply, h) ==
  /\ th[t].pc = "update"
  /\ ~th[t].hangs
  /\ LET w == th[t]
         op == UpdateText(current_ezd_file, SheetField.key,
                          Str(SheetField.value), reply)
         us == AfterUpdate(w.update_success, op.ret)
     IN /\ current_ezd_file' = op.cur
        /\ IF ShouldMark(us)
           THEN Become(t, StartCmd([w EXCEPT !.update_success = us], "mark", h))
           ELSE Become(t, Continue([w EXCEPT
                                      !.update_success = us,
                                      !.stats = CountRow(@, us, FALSE),
                                      !.i = NextIndex(@)], h))
  /\ UNCHANGED <<integration_bridge, SessionSide>>

\* mark returns to process_data: lines 276-280
AppMarkDone(t, reply, h) ==
  /\ th[t].pc = "mark"
  /\ ~th[t].hangs
  /\ LET w == th[t]
         op == Mark(current_ezd_file, None, reply)
     IN /\ current_ezd_file' = op.cur
        /\ Become(t, Continue([w EXCEPT
                                 !.stats = CountRow(@, w.update_success, op.ret),
                                 !.i = NextIndex(@)], h))
  /\ UNCHANGED <<integration_bridge, SessionSide>>

\* save_ezd_file returns to process_data: lines 290-295
AppSaveDone(t, reply) ==
  /\ th[t].pc = "save"
  /\ ~th[t].hangs
  /\ LET w == th[t]
         op == SaveEzdFile(current_ezd_file, w.out, reply)
     IN /\ current_ezd_file' = op.cur
        /\ Become(t, ReturnBatch(w, FinalStats(w.stats, Len(w.issued))))
  /\ UNCHANGED <<integration_bridge, SessionSide>>

\* the worker thread ends once its outcome is shown
AppDismiss(t) ==
  /\ th[t].pc = "done"
  /\ Become(t, IdleWorker)
  /\ UNCHANGED <<current_ezd_file, integration_bridge, SessionSide>>

\* one step of worker t, its inputs drawn from the given sets
WorkerStep(t, sheets, outs, lags, hs, wbs) ==
  \/ \E ezd \in Paths, h \in hs : AppTestBridge(t, ezd, h)
  \/ \E ezd \in Paths, h \in hs : AppListEntities(t, ezd, h)
  \/ \E sheet \in sheets, ezd \in Paths, out \in outs, h \in hs, lag \in lags,
        wb \in wbs :
       AppProcessExcel(t, sheet, ezd, out, h, lag, wb)
  \/ \E r \in EngineReplies, h \in hs : AppInfoDone(t, r, h)
  \/ \E r \in EngineReplies, h \in hs : AppOpenDone(t, r, h)
  \/ \E r \in EngineReplies, h \in hs : AppListDone(t, r, h)
  \/ \E r \in EngineReplies, h \in hs : AppUpdateDone(t, r, h)
  \/ \E r \in EngineReplies, h \in hs : AppMarkDone(t, r, h)
  \/ \E r \in EngineReplies : AppSaveDone(t, r)
  \/ AppDismiss(t)

\* the integration object as built by the window or the command line:
\* with a bridge, or without one when EZCADBridge() raised (lines 44-50)
AppInit ==
  /\ BridgeInit
  /\ integration_bridge \in BOOLEAN
  /\ th = [t \in Workers |-> IdleWorker]

\* one caller: the command line, or a window used one action at a time
CallNext ==
  WorkerStep(1, Sheets, {None, PathOut}, 0..MaxLag, BOOLEAN, WriteBacks)
SpecCall == AppInit /\ [][CallNext]_vars

\* the window: every action runs on a thread of its own; the sheets have
\* one row, the status write-back is on and every process exits
GuiSheets == {s \in Sheets : s.rows <= 1}
GuiNext ==
  \E t \in Workers :
    WorkerStep(t, GuiSheets, {None, PathOut}, {0}, {FALSE}, {"saved"})
SpecGui == AppInit /\ [][GuiNext]_vars

\* ------------------------------------------------------------- the claims

\* process_data has returned
Returned == pc = "idle" /\ last.op = "process_data" /\ result.kind = "dict"
ReturnedStats == Returned /\ "total" \in DOMAIN result.val
ReturnedError == Returned /\ "error" \in DOMAIN result.val

\* a direct call of the session has returned
DirectReturned(name) == pc = "idle" /\ last.op = name

\* the loop is between two rows, or past the last, and row i-1 is in data_item
RowDone == pc = "pd_loop" /\ i > 1
\* the invocations issued for the row just done
RowCalls == SelectSeq(calls, LAMBDA c : c.row = i - 1)
RowUpdates == SelectSeq(RowCalls, LAMBDA c : c.cmd = "update")
RowMarks == SelectSeq(RowCalls, LAMBDA c : c.cmd = "mark")
UpdateIssuedFor(key) == \E k \in 1..Len(RowUpdates) : RowUpdates[k].args[1] = key
NoUpdateFailed == \A k \in 1..Len(RowUpdates) : RowUpdates[k].ok
SuccessCounted == stats.success = row_start.success + 1 /\ stats.errors = row_start.errors
FailureCounted == stats.errors = row_start.errors + 1 /\ stats.success = row_start.success

\* C1: when process_data returns statistics, success + errors = total,
\* whatever the rows, the outcomes of their updates and marks, and the rows that raised.
C1_CountersSumToTotal ==
  ReturnedStats => result.val.success + result.val.errors = result.val.total

C1_Witness ==
  /\ ReturnedStats
  /\ result.val.total = 2
  /\ result.val.success = 1
  /\ result.val.errors = 1

\* C2: process_data on a template path that does not exist returns an error
\* result: no total (read as zero), a non-empty error text, no invocation issued.
C2_MissingTemplate ==
  (pc = "idle" /\ last.op = "process_data" /\ last.args[1] \notin ExistingPaths)
    => /\ ReturnedError
       /\ GetTotal(result.val) = 0
       /\ result.val.error /= ""
       /\ calls = <<>>

C2_Witness ==
  /\ ReturnedError
  /\ last.args[1] = PathMissing
  /\ result.val.error = "Template file not found"
  /\ calls = <<>>

\* C3: when the open issued by process_data fails, the call returns at once
\* with the error "Failed to open template file": the open is the only
\* invocation (no list, update, mark or save) and no row is counted.
C3_OpenFailureAborts ==
  (last.op = "process_data" /\ calls /= <<>> /\ ~calls[1].ok)
    => /\ ReturnedError
       /\ result.val.error = "Failed to open template file"
       /\ GetTotal(result.val) = 0
       /\ Len(calls) = 1
       /\ calls[1].cmd = "open"

C3_Witness ==
  /\ ReturnedError
  /\ Len(calls) = 1
  /\ calls[1].cmd = "open"
  /\ ~calls[1].ok
  /\ result.val.error = "Failed to open template file"

\* C4: with no session open, update_text, mark, red_light and save_ezd_file
\* return False and list_entities returns the empty list; none of them issues
\* an invocation, and the session stays closed.
C4_NoSessionNoInvocation ==
  \A name \in {"update", "mark", "red", "list", "save"} :
    (DirectReturned(name) /\ last.before = None)
      => /\ calls = <<>>
         /\ current_ezd_file = None
         /\ IF name = "list" THEN result.val = <<>> ELSE result.val = FALSE

C4_Witness ==
  /\ DirectReturned("update")
  /\ last.before = None
  /\ result.val = FALSE
  /\ calls = <<>>

\* C5: open_ezd_file on a path that does not exist returns False, issues no
\* invocation and leaves the session path as it was.
C5_OpenMissingPath ==
  (DirectReturned("open") /\ last.args[1] \notin ExistingPaths)
    => /\ result.val = FALSE
       /\ calls = <<>>
       /\ current_ezd_file = last.before

C5_Witness ==
  /\ DirectReturned("open")
  /\ last.args[1] = PathMissing
  /\ last.before = PathA
  /\ current_ezd_file = PathA
  /\ result.val = FALSE

\* C6: open_ezd_file records the given path exactly when its invocation is
\* classified as success, and then returns True; when the invocation is
\* classified as failure it returns False and the session path is unchanged,
\* so a session open on another template stays open on it.
C6_OpenSetsPathOnSuccessOnly ==
  (DirectReturned("open") /\ calls /= <<>>)
    => IF calls[1].ok
       THEN result.val = TRUE /\ current_ezd_file = last.args[1]
       ELSE result.val = FALSE /\ current_ezd_file = last.before

C6_Witness ==
  /\ DirectReturned("open")
  /\ calls /= <<>>
  /\ ~calls[1].ok
  /\ last.args[1] = PathB
  /\ last.before = PathA
  /\ current_ezd_file = PathA

\* C7 as claimed: open_ezd_file called again on the path it has just opened
\* leaves the session path unchanged and reports success again.
C7_Original ==
  (pc = "idle" /\ reopened)
    => current_ezd_file = last.before /\ result.val = TRUE

\* C7, amended: open_ezd_file called again on the path it has just opened
\* leaves the session path on that path whatever the second invocation
\* returns; the second call issues its own open and reports that
\* invocation's outcome, which need not be success.
C7_ReopenKeepsSession ==
  (pc = "idle" /\ reopened)
    => /\ last.before = last.args[1]
       /\ current_ezd_file = last.before
       /\ Len(calls) = 1
       /\ calls[1].cmd = "open"
       /\ result.val = calls[1].ok

C7_Witness ==
  /\ pc = "idle"
  /\ reopened
  /\ last.args[1] = PathA
  /\ current_ezd_file = PathA
  /\ result.val = TRUE

\* the first field of the row at which the row raises: 0 for its prologue,
\* past the last field when it does not raise
RECURSIVE RaisesAtFrom(_, _)
RaisesAtFrom(item, k) ==
  IF k > Len(item.items) THEN k
  ELSE IF ShouldUpdate(item.items[k].key, available_entities)
          /\ StrRaises(item.items[k].value)
       THEN k
       ELSE RaisesAtFrom(item, k + 1)
RaisesAt(item) == IF PrologueRaises(item) THEN 0 ELSE RaisesAtFrom(item, 1)

\* a row without a matching field that raised nothing is counted by its mark alone
UnknownFieldsDoNotFail ==
  (~raised /\ RowUpdates = <<>>)
    => /\ Len(RowMarks) = 1
       /\ RowMarks[1].ok => SuccessCounted

\* C8 as claimed: an update is issued for a field of the row exactly when the
\* field is not "id" and is a discovered entity.
C8_Original ==
  RowDone =>
    /\ \A k \in 1..Len(data_item.items) :
         UpdateIssuedFor(data_item.items[k].key)
           <=> ShouldUpdate(data_item.items[k].key, available_entities)
    /\ UnknownFieldsDoNotFail

\* C8, amended: an update is issued for a field of the row exactly when the
\* field is not "id", is a discovered entity, and the row has raised no
\* exception before that update (an exception ends the row); a field that is
\* not a discovered entity gets no update and does not fail the row.
C8_UpdatesForKnownFields ==
  RowDone =>
    /\ \A k \in 1..Len(data_item.items) :
         UpdateIssuedFor(data_item.items[k].key)
           <=> /\ data_item.items[k].key /= IdField
               /\ InList(data_item.items[k].key, available_entities)
               /\ k < RaisesAt(data_item)
    /\ UnknownFieldsDoNotFail

C8_Witness ==
  /\ RowDone
  /\ ~raised
  /\ Len(data_item.items) = 2
  /\ data_item.items[1].key = KeyExtra
  /\ data_item.items[2].key = KeySerial
  /\ ~InList(KeyExtra, available_entities)
  /\ Len(RowUpdates) = 1
  /\ RowUpdates[1].args[1] = KeySerial
  /\ SuccessCounted

\* every mark of the row is a mark-all issued after the row's updates
MarkIsLastAndBare ==
  /\ Len(RowMarks) <= 1
  /\ Len(RowMarks) = 1 =>
       /\ RowCalls[Len(RowCalls)].cmd = "mark"
       /\ RowMarks[1].args = <<>>

\* C9 as claimed: the row's mark is issued exactly when none of the row's
\* updates returned failure.
C9_Original ==
  RowDone => (Len(RowMarks) = 1 <=> NoUpdateFailed)

\* C9, amended: the row's mark is issued exactly when none of the row's
\* updates returned failure and the row raised no exception; it is issued
\* once, after all of the row's updates, with no entity argument.
C9_MarkAfterCleanUpdates ==
  RowDone =>
    /\ Len(RowMarks) = 1 <=> (NoUpdateFailed /\ ~raised)
    /\ MarkIsLastAndBare

C9_Witness ==
  /\ RowDone
  /\ Len(RowUpdates) = 2
  /\ NoUpdateFailed
  /\ Len(RowCalls) = 3
  /\ RowCalls[3].cmd = "mark"
  /\ RowCalls[3].args = <<>>

\* C10: the row counts as succeeded exactly when every update issued for it
\* returned success and its mark was issued and returned success; otherwise
\* it counts as failed; either way exactly one counter moves, by one.
C10_RowCountedOnce ==
  RowDone =>
    /\ SuccessCounted <=> (NoUpdateFailed /\ Len(RowMarks) = 1 /\ RowMarks[1].ok)
    /\ SuccessCounted \/ FailureCounted

C10_Witness ==
  /\ RowDone
  /\ Len(RowUpdates) = 1
  /\ NoUpdateFailed
  /\ Len(RowMarks) = 1
  /\ ~RowMarks[1].ok
  /\ FailureCounted

\* a step in which the row at hand raises
RowRaises == pc \in {"pd_loop", "pd_field"} /\ raised' /\ i' /= i
\* a step in which process_data returns from its loop
LoopReturns == pc \in {"pd_loop", "pd_field"} /\ pc' = "idle"

\* C11: a row that raises is counted once, as a failure, and issues nothing
\* more; the loop goes on with the next row, and process_data returns only
\* after the last row, with statistics.
C11_RaisingRowDoesNotAbort ==
  [][ /\ RowRaises =>
           /\ pc' = "pd_loop"
           /\ i' = i + 1
           /\ stats'.errors = stats.errors + 1
           /\ stats'.success = stats.success
           /\ stats'.total = stats.total
           /\ calls' = calls
      /\ LoopReturns =>
           /\ i > stats.total
           /\ result'.kind = "dict"
           /\ "total" \in DOMAIN result'.val
           /\ result'.val.total = stats.total
           /\ result'.val.errors = stats.errors
           /\ result'.val.success = stats.success
    ]_vars

C11_Witness ==
  /\ RowDone
  /\ raised
  /\ i <= stats.total
  /\ Len(RowUpdates) = 1
  /\ FailureCounted

SaveCalls == SelectSeq(calls, LAMBDA c : c.cmd = "save")
OutputSupplied == output_path /= None /\ output_path /= <<>>

\* C12: process_data issues a save exactly when an output path was given:
\* none while the rows are processed, one as its last invocation; whatever
\* the save returns, the counters returned are those of the loop and the
\* result is the statistics, not an error.
C12_SaveOnceAfterRows ==
  /\ []((last.op = "process_data" /\ pc /= "idle") => SaveCalls = <<>>)
  /\ [][ LoopReturns =>
           /\ IF OutputSupplied
              THEN /\ Len(calls') = Len(calls) + 1
                   /\ SubSeq(calls', 1, Len(calls)) = calls
                   /\ calls'[Len(calls')].cmd = "save"
                   /\ calls'[Len(calls')].args = <<output_path>>
              ELSE calls' = calls
           /\ "error" \notin DOMAIN result'.val
           /\ result'.val.total = stats.total
           /\ result'.val.success = stats.success
           /\ result'.val.errors = stats.errors
       ]_vars

C12_Witness ==
  /\ ReturnedStats
  /\ Len(SaveCalls) = 1
  /\ calls[Len(calls)].cmd = "save"
  /\ ~calls[Len(calls)].ok
  /\ result.val.total = 2
  /\ result.val.success = 2

\* C13: the invocations of the rows appear in the order of the rows, those of
\* a row before those of the next; the loop takes the rows one by one, never
\* going past the row after the last, and logs nothing for a row not yet taken.
C13_RowsInOrder ==
  /\ \A a, b \in DOMAIN calls :
       (a < b /\ calls[a].row > 0 /\ calls[b].row > 0)
         => calls[a].row <= calls[b].row
  /\ (last.op = "process_data" /\ pc \in {"pd_loop", "pd_field"}) =>
       /\ i >= 1
       /\ i <= stats.total + 1
       /\ pc = "pd_field" => i <= stats.total
       /\ \A a \in DOMAIN calls :
            calls[a].row <= (IF pc = "pd_field" THEN i ELSE i - 1)

C13_Witness ==
  /\ pc = "pd_field"
  /\ i = 2
  /\ \E a, b \in DOMAIN calls :
       /\ b = a + 1
       /\ calls[a].row = 1
       /\ calls[a].cmd = "mark"
       /\ calls[b].row = 2
       /\ calls[b].cmd = "update"

\* C14: in a batch the list is the second invocation, right after the open,
\* and the only list; every update and mark comes after it, and the entities
\* it found stay as they are until process_data returns.
C14_ListOnceBeforeRows ==
  /\ []((last.op = "process_data" /\ pc = "pd_list") =>
          (Len(calls) = 1 /\ calls[1].cmd = "open"))
  /\ []((last.op = "process_data"
          /\ (pc \in {"pd_loop", "pd_field"} \/ ReturnedStats)) =>
          /\ Len(calls) >= 2
          /\ calls[1].cmd = "open"
          /\ calls[2].cmd = "list"
          /\ \A k \in 3..Len(calls) : calls[k].cmd \in {"update", "mark", "save"})
  /\ [][ (pc \in {"pd_loop", "pd_field"} /\ pc' /= "idle")
           => available_entities' = available_entities ]_vars

C14_Witness ==
  /\ pc = "pd_loop"
  /\ i = 3
  /\ calls[2].cmd = "list"
  /\ available_entities /= <<>>
  /\ \E a, b \in 3..Len(calls) :
       /\ calls[a].cmd = "update" /\ calls[a].row = 1
       /\ calls[b].cmd = "update" /\ calls[b].row = 2

\* the boolean operations of the session
BooleanOps == {"open", "update", "mark", "red", "save"}
\* the last call was a boolean operation, has returned, and ran the engine
BooleanInvoked == pc = "idle" /\ last.op \in BooleanOps /\ bridge.invoked
\* the lower-cased output of the invocation of the last call contains s
OutputHas(s) == Contains(Lower(bridge.result.output), s)
\* the phrase the contract names for each boolean operation
ExpectedPhrase(op) ==
  CASE op = "open" -> <<"s","u","c","c","e","s","s","f","u","l","l","y">>
    [] op = "update" -> <<"u","p","d","a","t","e","d"," ","s","u","c","c","e","s","s","f","u","l","l","y">>
    [] op = "mark" -> <<"c","o","m","p","l","e","t","e","d">>
    [] op = "red" -> <<"p","o","s","i","t","i","o","n","e","d"," ","s","u","c","c","e","s","s","f","u","l","l","y">>
    [] op = "save" -> <<"s","a","v","e","d"," ","s","u","c","c","e","s","s","f","u","l","l","y">>

\* C15: a boolean operation that ran the engine returns True exactly when
\* the lower-cased output of that run contains its phrase: 'successfully'
\* for open, 'updated successfully' for update, 'completed' for mark,
\* 'positioned successfully' for red, 'saved successfully' for save.
C15_OutcomeIsPhraseInOutput ==
  BooleanInvoked => (result.val <=> OutputHas(ExpectedPhrase(last.op)))

C15_Witness ==
  /\ BooleanInvoked
  /\ last.op = "mark"
  /\ bridge.result.output = OutMarked
  /\ ~Contains(bridge.result.output, ExpectedPhrase("mark"))
  /\ result.val = TRUE

\* the last call was a save or a red light, has returned, and ran the engine
SaveOrRedInvoked == BooleanInvoked /\ last.op \in {"save", "red"}

\* C16 as stated: save and red light succeed exactly when the lower-cased
\* output contains 'successfully'.
C16_Original ==
  SaveOrRedInvoked => (result.val <=> OutputHas(<<"s","u","c","c","e","s","s","f","u","l","l","y">>))

\* C16: for save and red light 'successfully' in the lower-cased output is
\* necessary for success but not sufficient: save succeeds exactly when the
\* output contains 'saved successfully', red light exactly when it contains
\* 'positioned successfully'.
C16_SaveAndRedNeedTheirOwnPhrase ==
  SaveOrRedInvoked =>
    /\ result.val => OutputHas(<<"s","u","c","c","e","s","s","f","u","l","l","y">>)
    /\ last.op = "save" => (result.val <=> OutputHas(<<"s","a","v","e","d"," ","s","u","c","c","e","s","s","f","u","l","l","y">>))
    /\ last.op = "red" => (result.val <=> OutputHas(<<"p","o","s","i","t","i","o","n","e","d"," ","s","u","c","c","e","s","s","f","u","l","l","y">>))

C16_Witness ==
  /\ SaveOrRedInvoked
  /\ last.op = "save"
  /\ OutputHas(<<"s","u","c","c","e","s","s","f","u","l","l","y">>)
  /\ result.val = FALSE

\* the last call was list_entities, has returned, and ran the engine
ListInvoked == pc = "idle" /\ last.op = "list" /\ bridge.invoked
\* the text of a record line between its first ']' and the token '(Type:'
NameInRecord(line) ==
  LET rest == Split1(line, <<"]">>)[2]
  IN Strip(Split1(rest, <<"(","T","y","p","e",":">>)[1])
\* a line is a record when it starts with '[' and contains ']'
IsRecord(line) == StartsWith(line, <<"[">>) /\ Contains(line, <<"]">>)
\* the names of the record lines among lines, taken as they are
RECURSIVE NamesOfRecords(_)
NamesOfRecords(lines) ==
  IF lines = <<>> THEN <<>>
  ELSE (IF IsRecord(Head(lines)) THEN <<NameInRecord(Head(lines))>> ELSE <<>>)
         \o NamesOfRecords(Tail(lines))
\* the names of the record lines among lines, each line trimmed first
RECURSIVE NamesOfTrimmedRecords(_)
NamesOfTrimmedRecords(lines) ==
  IF lines = <<>> THEN <<>>
  ELSE (IF IsRecord(Strip(Head(lines)))
        THEN <<NameInRecord(Strip(Head(lines)))>> ELSE <<>>)
         \o NamesOfTrimmedRecords(Tail(lines))

\* C17 as stated: list_entities returns one name per output line that starts
\* with '[' and contains ']', and nothing for any other line.
C17_Original ==
  ListInvoked =>
    /\ result.kind = "list"
    /\ result.val = NamesOfRecords(SplitLines(bridge.result.output))

\* C17: list_entities returns, in the order emitted and with duplicates
\* kept, one name per output line that, once its surrounding whitespace is
\* trimmed, starts with '[' and contains ']': the trimmed text after the
\* first ']' up to the token '(Type:', or to the end of the line when the
\* token is absent.  Every other line contributes nothing; empty output, no
\* matching line or a failed launch give the empty list.
C17_NamesOfTrimmedRecordLines ==
  ListInvoked =>
    /\ result.kind = "list"
    /\ result.val = NamesOfTrimmedRecords(SplitLines(bridge.result.output))
    /\ bridge.result.output = <<>> => result.val = <<>>

C17_Witness ==
  /\ ListInvoked
  /\ bridge.result.output = OutList1
  /\ result.val = <<<<"S","e","r","i","a","l">>, <<"i","d">>, <<"S","e","r","i","a","l">>>>

\* mark was called with a session open and has returned
MarkReturned == pc = "idle" /\ last.op = "mark" /\ last.before /= None
\* no entity name was given to the last call
NameOmitted == last.args[1] = None \/ last.args[1] = <<>>

\* C18: with a session open, mark issues one invocation: the command 'mark'
\* alone when no entity name is given, 'mark' followed by the name when one
\* is given; in both cases it returns a boolean decided by the output.
C18_MarkCommand ==
  MarkReturned =>
    /\ Len(calls) = 1
    /\ calls[1].cmd = "mark"
    /\ calls[1].args = (IF NameOmitted THEN <<>> ELSE <<last.args[1]>>)
    /\ bridge.invoked
    /\ result.kind = "bool"
    /\ result.val <=> OutputHas(<<"c","o","m","p","l","e","t","e","d">>)

C18_Witness ==
  /\ MarkReturned
  /\ last.args = <<None>>
  /\ calls[1].args = <<>>
  /\ result.val = TRUE

\* a direct call has returned and ran the engine
DirectInvoked == pc = "idle" /\ last.op /= "process_data" /\ bridge.invoked

\* C19: when the launch of the process throws, the invoker returns return
\* code -1, success false, empty output and the message of the exception as
\* error; otherwise it returns the streams and the exit code, with success
\* true exactly when the exit code is 0.  An operation whose launch threw
\* returns False, or the empty list.
C19_LaunchFailureIsAResult ==
  DirectInvoked =>
    /\ ~bridge.reply.launched =>
         /\ bridge.result.return_code = -1
         /\ bridge.result.success = FALSE
         /\ bridge.result.output = <<>>
         /\ bridge.result.error = bridge.reply.stderr
         /\ last.op \in BooleanOps => result.val = FALSE
         /\ last.op = "list" => result.val = <<>>
    /\ bridge.reply.launched =>
         /\ bridge.result.return_code = bridge.reply.code
         /\ bridge.result.success <=> (bridge.reply.code = 0)
         /\ bridge.result.output = bridge.reply.stdout
         /\ bridge.result.error = bridge.reply.stderr
    /\ last.op = "info" => result.val = bridge.result

C19_Witness ==
  /\ DirectInvoked
  /\ last.op = "update"
  /\ ~bridge.reply.launched
  /\ bridge.result.return_code = -1
  /\ bridge.result.error = ErrLaunch
  /\ result.val = FALSE

\* the invocation of the last call ended in an error of the process: the
\* launch threw, the exit code is not 0, or the output lacks the phrase
ProcessError ==
  \/ ~bridge.reply.launched
  \/ bridge.reply.code /= 0
  \/ ~OutputHas(ExpectedPhrase(last.op))

\* C20: a boolean operation whose invocation ended in a launch failure, a
\* non-zero exit code or an output without its phrase returns False.
C20_ProcessErrorsAreFailures ==
  (BooleanInvoked /\ ProcessError) => result.val = FALSE

\* the invocation a step added last to the log
NewestCall == calls'[Len(calls')]

\* C25: the session path changes only in a step whose newest invocation is
\* an open classified as success, and then to the path that open was given;
\* once set it is never unset.  Every other operation, and a failed open,
\* leave it as it was.
C25_SessionPathChangesOnlyOnOpen ==
  [][ /\ current_ezd_file' /= current_ezd_file =>
           /\ calls' /= <<>>
           /\ calls' /= calls
           /\ NewestCall.cmd = "open"
           /\ NewestCall.ok
           /\ NewestCall.args = <<current_ezd_file'>>
      /\ current_ezd_file /= None => current_ezd_file' /= None
    ]_vars

C25_Witness ==
  /\ DirectReturned("open")
  /\ bridge.invoked
  /\ result.val = FALSE
  /\ last.before = PathA
  /\ last.args = <<PathB>>
  /\ current_ezd_file = PathA

\* the invocations of a command in the log
CallsOf(cmd) == SelectSeq(calls, LAMBDA c : c.cmd = cmd)
\* the invocations of a command issued for a row
RowCallsOf(cmd, row) == SelectSeq(calls, LAMBDA c : c.cmd = cmd /\ c.row = row)
\* the rows the log has invocations for
LoggedRows == {calls[k].row : k \in DOMAIN calls} \ {0}
\* no two updates of a row name the same field
OneUpdatePerField(row) ==
  LET ups == RowCallsOf("update", row)
  IN \A a, b \in 1..Len(ups) : a /= b => ups[a].args[1] /= ups[b].args[1]

\* C28: a direct call issues at most one invocation, exactly one when it
\* reaches the engine.  A batch issues at most one open, one list and one
\* save, exactly one open and one list when it went through its rows, and
\* for every row at most one update per field and at most one mark,
\* whatever these invocations returned.
C28_OneProcessPerOperation ==
  /\ (pc = "idle" /\ last.op /= "process_data") =>
       Len(calls) = (IF bridge.invoked THEN 1 ELSE 0)
  /\ last.op = "process_data" =>
       /\ Len(CallsOf("open")) <= 1
       /\ Len(CallsOf("list")) <= 1
       /\ Len(CallsOf("save")) <= 1
       /\ (pc \in {"pd_loop", "pd_field"} \/ ReturnedStats) =>
            (Len(CallsOf("open")) = 1 /\ Len(CallsOf("list")) = 1)
       /\ \A row \in LoggedRows :
            /\ Len(RowCallsOf("mark", row)) <= 1
            /\ OneUpdatePerField(row)

C28_Witness ==
  /\ ReturnedStats
  /\ result.val.total = 2
  /\ Len(RowCallsOf("update", 1)) = 2
  /\ ~RowCallsOf("update", 1)[1].ok
  /\ Len(RowCallsOf("mark", 2)) = 1
  /\ ~RowCallsOf("mark", 2)[1].ok
  /\ Len(CallsOf("save")) = 1
  /\ ~CallsOf("save")[1].ok

\* the rows counted so far
Counted(st) == st.success + st.errors

\* C29: while the loop runs, success + errors is the number of rows done;
\* within a row the counters are those at its start; a finished row has
\* left total alone, lowered neither counter and raised their sum by one.
C29_CountersFollowRows ==
  (last.op = "process_data" /\ pc \in {"pd_loop", "pd_field"}) =>
    /\ Counted(stats) = i - 1
    /\ pc = "pd_field" => stats = row_start
    /\ RowDone =>
         /\ stats.total = row_start.total
         /\ stats.success >= row_start.success
         /\ stats.errors >= row_start.errors
         /\ Counted(stats) = Counted(row_start) + 1
         /\ Counted(row_start) = i - 2

C29_Witness ==
  /\ pc = "pd_loop"
  /\ i = 3
  /\ stats.total = 2
  /\ stats.success = 1
  /\ stats.errors = 1
  /\ row_start.success = 1
  /\ row_start.errors = 0

\* no field of the row at hand is one that gets an update
NoFieldMatches ==
  /\ data_item.mapping
  /\ \A k \in 1..Len(data_item.items) :
       ~(data_item.items[k].key /= IdField
         /\ InList(data_item.items[k].key, available_entities))
\* the row issued no update and one mark-all, and counts by that mark
MarkedWithoutUpdate ==
  /\ RowUpdates = <<>>
  /\ Len(RowMarks) = 1
  /\ RowMarks[1].args = <<>>
  /\ RowMarks[1].ok => SuccessCounted
  /\ ~RowMarks[1].ok => FailureCounted

\* C30 as stated: a row none of whose fields matches a discovered entity
\* issues no update and one mark-all, and succeeds when the mark does.
C30_Original ==
  (RowDone /\ NoFieldMatches) => MarkedWithoutUpdate

\* C30: a row none of whose fields matches a discovered entity, and whose
\* id can be written to the log, issues no update and one mark-all, and is
\* counted as succeeded exactly when that mark reports success; when the id
\* cannot be formatted the row raises, issues nothing and counts as failed.
C30_UnmatchedRowIsMarked ==
  (RowDone /\ NoFieldMatches) =>
    IF HasKey(data_item.items, IdField)
       /\ StrRaises(ValueOf(data_item.items, IdField))
    THEN RowCalls = <<>> /\ FailureCounted
    ELSE MarkedWithoutUpdate

C30_Witness ==
  /\ RowDone
  /\ NoFieldMatches
  /\ available_entities = <<>>
  /\ Len(data_item.items) = 2
  /\ data_item.items[1].key = KeySerial
  /\ Len(RowMarks) = 1
  /\ SuccessCounted

\* a call of worker t has returned
CallDone(t) == th[t].pc = "done"
\* the template, or the spreadsheet, the call of worker t was given is not there
MissingResource(t) ==
  \/ ~PathExists(th[t].ezd)
  \/ th[t].job = "process" /\ th[t].excel = "missing"
\* what the call of worker t returned says it failed
ReturnedFailure(t) ==
  CASE th[t].job = "test" -> th[t].ret.val = FALSE
    [] th[t].job = "list" -> th[t].ret.val = <<>>
    [] th[t].job = "process" ->
         /\ "error" \in DOMAIN th[t].ret.val
         /\ th[t].ret.val.error \in {"EZCAD Bridge not initialized",
                                     "Excel file not found",
                                     "EZD template file not found"}

\* C21: a call of process_excel_file, list_entities_in_template or
\* test_integration given a missing template or spreadsheet returns its
\* failure without having issued any invocation.
C21_NoInvocationBeforeMissingReturn ==
  \A t \in Workers :
    (CallDone(t) /\ MissingResource(t)) =>
      (th[t].issued = <<>> /\ ReturnedFailure(t))

\* worker t is inside _run_bridge_command, its process not yet over
InFlight(t) == th[t].pc \in {"info", "open", "list", "update", "mark", "save"}

\* C22: at most one worker at a time is inside an invocation of the engine.
C22_OneInvocationAtATime ==
  Cardinality({t \in Workers : InFlight(t)}) <= 1

\* process_excel_file of worker t returned what a batch returns after its rows
RanThroughRows(t) ==
  /\ CallDone(t)
  /\ th[t].job = "process"
  /\ "total" \in DOMAIN th[t].ret.val

\* C23: the caller is shown a failure exactly when process_excel_file
\* returned an error result; a batch that went through its rows is shown
\* as complete, with its counts, also when no row succeeded.
C23_FailureOnlyWhenFatal ==
  \A t \in Workers :
    (CallDone(t) /\ th[t].job = "process") =>
      IF RanThroughRows(t)
      THEN /\ th[t].report.kind = "complete"
           /\ th[t].report.success = th[t].ret.val.success
           /\ th[t].report.total = th[t].ret.val.total
      ELSE /\ th[t].report.kind = "error"
           /\ th[t].report.error = th[t].ret.val.error

\* C24: a batch is never left waiting, in a row, for a process that does
\* not exit: some step gives the row up and lets the batch go on.
C24_HungCallIsAbandoned ==
  (th[1].job = "process" /\ th[1].pc \in {"update", "mark"} /\ th[1].hangs)
    => ENABLED CallNext

\* the batch of worker t has opened its template and has not returned
BatchRunning(t) ==
  th[t].job = "process" /\ th[t].pc \in {"list", "update", "mark", "save"}

\* C26: while a batch runs, the session path is the template of that batch.
C26_BatchOwnsSession ==
  \A t \in Workers : BatchRunning(t) => current_ezd_file = th[t].ezd

\* process_data of worker t returned finalized statistics
Finalized(t) ==
  /\ CallDone(t)
  /\ th[t].final.kind = "dict"
  /\ "end_time" \in DOMAIN th[t].final.val
\* the keys process_data wrote, apart from duration
StampedKeys == {"total", "success", "errors", "start_time", "end_time"}

\* C27 as stated: what process_excel_file returns is the finalized
\* statistics, with no field changed or added.
C27_Original ==
  \A t \in Workers :
    Finalized(t) =>
      /\ DOMAIN th[t].ret.val = DOMAIN th[t].final.val
      /\ \A k \in DOMAIN th[t].final.val : th[t].ret.val[k] = th[t].final.val[k]

\* C27: after process_data has finalized the statistics, process_excel_file
\* adds the key total_rows and replaces duration by its own, no shorter,
\* measure; total, success, errors, start_time and end_time stay as
\* process_data left them.
C27_CountsAndStampsKept ==
  \A t \in Workers :
    Finalized(t) =>
      /\ DOMAIN th[t].ret.val = DOMAIN th[t].final.val \cup {"total_rows"}
      /\ \A k \in StampedKeys : th[t].ret.val[k] = th[t].final.val[k]
      /\ th[t].ret.val.total_rows = th[t].rows
      /\ th[t].ret.val.duration >= th[t].final.val.duration

C27_Witness ==
  /\ Finalized(1)
  /\ th[1].final.val.total = 2
  /\ th[1].ret.val.total_rows = 2
  /\ th[1].ret.val.duration > th[1].final.val.duration
  /\ th[1].ret.val.end_time = th[1].final.val.end_time

\* the fields of the row just done that get an update, before field n
MatchingBefore(n) ==
  {k \in 1..Len(data_item.items) :
     k < n /\ ShouldUpdate(data_item.items[k].key, available_entities)}

\* C31: a row in which an update failed and nothing raised has issued an
\* update for every matching field, those after the failed one included,
\* and no mark; a row that raised has issued the updates of the matching
\* fields before the one that raised and nothing else.
C31_FailedUpdateGoesOn ==
  RowDone =>
    /\ (~raised /\ ~NoUpdateFailed) =>
         /\ \A k \in MatchingBefore(Len(data_item.items) + 1) :
              UpdateIssuedFor(data_item.items[k].key)
         /\ Len(RowCalls) = Cardinality(MatchingBefore(Len(data_item.items) + 1))
         /\ RowMarks = <<>>
    /\ raised =>
         /\ Len(RowCalls) = Cardinality(MatchingBefore(RaisesAt(data_item)))
         /\ RowUpdates = RowCalls

C31_Witness ==
  /\ RowDone
  /\ ~raised
  /\ Len(RowUpdates) = 2
  /\ ~RowUpdates[1].ok
  /\ RowMarks = <<>>
  /\ FailureCounted

\* process_excel_file of worker t has returned after its call of process_data
BatchReturned(t) ==
  /\ CallDone(t)
  /\ th[t].job = "process"
  /\ th[t].final.kind = "dict"

\* C32: when the write-back is on, a call of process_excel_file that got as
\* far as process_data hands every row of the spreadsheet to
\* save_processed_status, whatever process_data returned; when it is off,
\* or the call returned earlier, nothing is handed over; and what the call
\* returns is the same whether save_processed_status returned or raised.
C32_WriteBackCoversEveryRow ==
  \A t \in Workers :
    (CallDone(t) /\ th[t].job = "process") =>
      IF BatchReturned(t) /\ th[t].wb /= "off"
      THEN /\ th[t].status.called
           /\ th[t].status.rows = 0..(th[t].rows - 1)
           /\ th[t].ret.val =
                WithRows(th[t].final.val, th[t].rows, th[t].ret.val.duration)
      ELSE th[t].status = NoStatus

C32_Witness ==
  /\ BatchReturned(1)
  /\ th[1].wb = "raises"
  /\ th[1].rows = 2
  /\ "total" \in DOMAIN th[1].final.val
  /\ th[1].final.val.errors = 2
  /\ th[1].status.rows = {0, 1}
  /\ th[1].ret.val.errors = 2

\* C33: when every invocation returns, a call of process_data that has begun
\* returns: a fatal error result, or statistics with their end time stamped.
C33_ProcessDataReturns ==
  (pc /= "idle") ~>
    (ReturnedError \/ (ReturnedStats /\ "end_time" \in DOMAIN result.val))

C33_Witness ==
  /\ ReturnedStats
  /\ result.val.total = 2
  /\ result.val.success + result.val.errors = 2
  /\ "end_time" \in DOMAIN result.val
  /\ Len(CallsOf("save")) = 1

\* what an entry point returns when there is no bridge
UnsetFailure(t) ==
  CASE th[t].job = "process" -> th[t].ret = DictResult(BridgeNotInitialized)
    [] th[t].job = "list" -> th[t].ret = ListResult(<<>>)
    [] th[t].job = "test" -> th[t].ret = BoolResult(FALSE)

\* no worker is in an invocation or has issued one, and every call that has
\* returned has returned the failure value of its entry point
NothingRunsUnset ==
  \A t \in Workers :
    /\ th[t].issued = <<>>
    /\ th[t].pc \in {"idle", "done"}
    /\ th[t].pc = "done" => UnsetFailure(t)

\* C34: on an integration object whose bridge is unset, every step leaves
\* the bridge unset, and every call of process_excel_file,
\* list_entities_in_template or test_integration returns at once its failure
\* value (error result, empty list, False) with no invocation issued.
C34_UnsetBridgeFailsEveryCall ==
  [][~integration_bridge => (~integration_bridge' /\ NothingRunsUnset')]_vars

C34_Witness ==
  /\ ~integration_bridge
  /\ CallDone(1)
  /\ th[1].job = "process"
  /\ th[1].ret.val = BridgeNotInitialized
  /\ th[1].issued = <<>>
  /\ th[1].report.kind = "error"
====
